---------------------------- MODULE Spec2Model ----------------------------
(***************************************************************************)
(* Model of src/app.py: the restore-purchase request queue.                *)
(*                                                                         *)
(*   - HTTP producers call the /api/restore route, which rejects the call  *)
(*     (500, 400) or runs QueueManager.add_to_queue: create the record,    *)
(*     then push its id onto the FIFO queue.                               *)
(*   - one daemon worker thread runs QueueManager._process_queue forever:  *)
(*     pop an id, mark it processing, send the "processing" notification,  *)
(*     run _process_request (lookup, restore, entitlement check), loop.    *)
(*                                                                         *)
(* Every external call (LocketAPI.getUserByUsername, restorePurchase,      *)
(* Auth.create_token, the Telegram HTTP post) is an environment choice     *)
(* among the outcomes it can have: return a value or raise.                *)
(***************************************************************************)
EXTENDS Naturals, Sequences, FiniteSets, TLC

\* ------------------------------------------------------------------ bounds

\* Number of requests that are ever accepted (ids handed out by uuid4).
MaxRequests == 2

\* Number of concurrent HTTP producer threads.
NumProducers == 2

Producers == 1..NumProducers

\* Request ids: uuid4 values, modelled as 1, 2, ...; 0 stands for None.
ClientIds == 1..MaxRequests

None == 0

\* ------------------------------------------------------------- program data

\* The allow-list of subscription product identifiers.
subscription_ids ==
    { "locket_1600_1y", "locket_199_1m", "locket_199_1m_only",
      "locket_3600_1y", "locket_399_1m_only" }

\* Usernames a caller may send; "" is the missing / empty username.
Usernames == { "", "alice" }

\* Origin addresses as get_client_ip returns them.
Ips == { "10.0.0.1" }

\* What api.getUserByUsername may return: a response carrying
\* result.data.uid, or a response without it (account missing).
AccountResponses == { "account_with_uid", "account_no_data" }

\* What api.restorePurchase may return, reduced to what the code reads from
\* it: subscriber.entitlements.Gold.product_identifier.  "no_gold" has no Gold
\* entitlement, "gold_no_product" a Gold entitlement without the identifier;
\* any other value is a Gold entitlement holding that product identifier.
RestoreResponses ==
    { "no_gold", "gold_no_product", "locket_199_1m", "locket_free_trial" }

\* The exceptions the external calls raise.
CallErrors == { "AuthError", "UpstreamError" }

\* Values for local variables that are not bound.
Unset == "unset"

NoException == "none"

\* "No position": larger than every position get_status can return.
NoPosition == MaxRequests + 1

\* The estimator's default duration, used while its window is empty.
DefaultDuration == 5

\* What the mean of a non-empty window of run durations may be.
MeanDurations == { 3, DefaultDuration }

VARIABLES
    api,                \* global api: "None" or "LocketAPI"
    queue,              \* QueueManager.queue: sequence of pending ids
    client_requests,    \* QueueManager.client_requests: id -> record
    current_processing, \* QueueManager.current_processing
    ppc,                \* producer p: position in the /api/restore handler
    pclient,            \* producer p: client_id local of add_to_queue
    response,           \* HTTP status of the last answer /api/restore sent
    wpc,                \* worker: position in _process_queue/_process_request
    client_id,          \* worker: local client_id of _process_queue
    account_info,       \* worker: local account_info of _process_request
    restore,            \* worker: local restore of _process_request
    exc,                \* worker: exception being handled / propagating
    calls,              \* worker: external calls of this iteration, in order
    pushed,             \* history: ids in the order queue.put ran
    started,            \* history: ids in the order they were marked processing
    finished,           \* history: ids whose worker iteration is over
    runs,               \* history: id -> number of _process_request calls
    qpc,                \* poller: position in queue_status / get_status
    qid,                \* poller: client_id argument of get_status
    qstatus,            \* poller: the status value get_status has read
    qposition,          \* poller: the position value get_status has computed
    qcode,              \* poller: HTTP status queue_status answered, 0 before
    submit_response     \* body of the last answer of restore_purchase

vars ==
    << api, queue, client_requests, current_processing,
       ppc, pclient, response,
       wpc, client_id, account_info, restore, exc, calls,
       pushed, started, finished, runs,
       qpc, qid, qstatus, qposition, qcode, submit_response >>

\* The status poller's locals.
pollVars == << qpc, qid, qstatus, qposition, qcode >>

\* What only the HTTP clients' handlers write.
clientVars == << pollVars, submit_response >>

producerVars == << ppc, pclient, response >>

workerLocals == << client_id, account_info, restore, exc, calls >>

historyVars == << pushed, started, finished, runs >>

\* ----------------------------------------------------------------- helpers

Range(f) == { f[i] : i \in DOMAIN f }

\* Position of x in the sequence f, which holds it.
Pos(f, x) == CHOOSE i \in DOMAIN f : f[i] = x

\* The ids that have a record.
Requests == DOMAIN client_requests

\* str(uuid.uuid4()): a fresh id, never handed out before.
uuid4 == Len(client_requests) + 1

Status(c) == client_requests[c].status

SetStatus(c, s) == [client_requests EXCEPT ![c].status = s]

\* One external call of the current iteration and how it ended.
Call(op, result) == [op |-> op, result |-> result]

\* "ok" for a call that returned, else the exception it raised.
Outcome(r) == IF r \in AccountResponses \cup RestoreResponses THEN "ok" ELSE r

\* restore_purchase has not answered yet.
NoSubmitResponse ==
    [ client_id |-> None, position |-> 0, total_queue |-> 0,
      estimated_time |-> 0 ]

\* ---------------------------------------------------------------- Init

Init ==
    /\ api \in { "None", "LocketAPI" }
    /\ queue = << >>
    /\ client_requests = << >>
    /\ current_processing = None
    /\ ppc = [p \in Producers |-> "idle"]
    /\ pclient = [p \in Producers |-> None]
    /\ response = 0
    /\ wpc = "get"
    /\ client_id = None
    /\ account_info = Unset
    /\ restore = Unset
    /\ exc = NoException
    /\ calls = << >>
    /\ pushed = << >>
    /\ started = << >>
    /\ finished = << >>
    /\ runs = << >>
    /\ qpc = "idle"
    /\ qid = None
    /\ qstatus = Unset
    /\ qposition = NoPosition
    /\ qcode = 0
    /\ submit_response = NoSubmitResponse

\* ----------------------------------------------------- /api/restore route

\* restore(): "if not api" -> 500.
RestoreNotReady(p) ==
    /\ ppc[p] = "idle"
    /\ api = "None"
    /\ response' = 500
    /\ UNCHANGED << api, queue, client_requests,
                    current_processing, ppc, pclient, wpc >>
    /\ UNCHANGED << workerLocals, historyVars >>
    /\ UNCHANGED clientVars

\* Mutant: the username is validated after the record has been stored.
RestoreNoUsernameLate(p) ==
    /\ ppc[p] = "idle"
    /\ api # "None"
    /\ uuid4 <= MaxRequests
    /\ \E username \in Usernames, ip \in Ips :
          /\ username = ""
          /\ client_requests' =
                Append(client_requests,
                       [username |-> username, ip |-> ip, status |-> "waiting"])
          /\ response' = 400
    /\ runs' = Append(runs, 0)
    /\ UNCHANGED << api, queue, current_processing, ppc, pclient, wpc,
                    pushed, started, finished >>
    /\ UNCHANGED workerLocals
    /\ UNCHANGED clientVars

\* restore(): "if not username" -> 400.
RestoreNoUsername(p) ==
    /\ ppc[p] = "idle"
    /\ api # "None"
    /\ \E username \in Usernames :
          /\ username = ""
          /\ response' = 400
    /\ UNCHANGED << api, queue, client_requests,
                    current_processing, ppc, pclient, wpc >>
    /\ UNCHANGED << workerLocals, historyVars >>
    /\ UNCHANGED clientVars

\* add_to_queue, first half: a fresh id and its record, status "waiting".
AddToQueueCreate(p) ==
    /\ ppc[p] = "idle"
    /\ api # "None"
    /\ uuid4 <= MaxRequests
    /\ \E username \in Usernames, ip \in Ips :
          /\ username # ""
          /\ client_requests' =
                Append(client_requests,
                       [username |-> username, ip |-> ip, status |-> "waiting"])
    /\ runs' = Append(runs, 0)
    /\ pclient' = [pclient EXCEPT ![p] = uuid4]
    /\ ppc' = [ppc EXCEPT ![p] = "put"]
    /\ response' = response
    /\ UNCHANGED << api, queue, current_processing, wpc,
                    pushed, started, finished >>
    /\ UNCHANGED workerLocals
    /\ UNCHANGED clientVars

\* Mutant: the item is put in front of the items waiting.
QueuePutFront(q, c) == << c >> \o q

\* queue.Queue.put(item): the item goes behind the items waiting.
QueuePut(q, c) == Append(q, c)

\* add_to_queue, second half: queue.put(client_id); the route answers 200.
AddToQueuePut(p) ==
    /\ ppc[p] = "put"
    /\ queue' = QueuePut(queue, pclient[p])
    /\ pushed' = Append(pushed, pclient[p])
    /\ ppc' = [ppc EXCEPT ![p] = "idle"]
    /\ pclient' = [pclient EXCEPT ![p] = None]
    /\ response' = 200
    /\ UNCHANGED << api, client_requests, current_processing,
                    wpc, started, finished, runs >>
    /\ UNCHANGED workerLocals
    /\ UNCHANGED clientVars

Producer(p) ==
    \/ RestoreNotReady(p)
    \/ RestoreNoUsername(p)
    \/ AddToQueueCreate(p)
    \/ AddToQueuePut(p)

\* ------------------------------------------------- external collaborators

\* send_telegram_notification: returns at once when the bot token or the chat
\* id is not configured; otherwise it posts to the Telegram API (timeout 10 s)
\* with nothing around the post, so a transport failure or a timeout raises
\* to the caller.
send_telegram_notification == { "return", "raise" }

\* api.getUserByUsername(username): a response, or an exception.  With
\* api = None the attribute access itself raises.
getUserByUsername ==
    IF api = "None" THEN { "AttributeError" }
    ELSE AccountResponses \cup CallErrors

\* api.restorePurchase(uid): a response, or an exception.
restorePurchase ==
    IF api = "None" THEN { "AttributeError" }
    ELSE RestoreResponses \cup CallErrors

\* refresh_api_token: auth.create_token() either returns a token, and api is
\* replaced by a new handle, or raises, and api is left as it was.  Both ways the
\* function returns normally.
refresh_api_token(created) ==
    IF created THEN "LocketAPI" ELSE api

\* restore.get("subscriber", {}).get("entitlements", {}).get("Gold", {})
\*        .get("product_identifier"): the identifier, or None.
GoldProductIdentifier(r) ==
    IF r \in { "no_gold", "gold_no_product" } THEN "None" ELSE r

\* Mutant: any product identifier that is present passes.
EntitlementPresent(r) == GoldProductIdentifier(r) # "None"

\* gold.get("product_identifier") in subscription_ids
EntitlementValid(r) == GoldProductIdentifier(r) \in subscription_ids

\* Mutant: the newest item is taken (a LIFO queue).
QueueGetNewest(q) == [item |-> q[Len(q)], rest |-> SubSeq(q, 1, Len(q) - 1)]

\* Mutant: the head is read but stays in the queue.
QueueGetPeek(q) == [item |-> Head(q), rest |-> q]

\* queue.Queue.get(): the oldest item and the items left.
QueueGetItem(q) == [item |-> Head(q), rest |-> Tail(q)]

\* --------------------------------------------------- _process_queue (worker)

\* client_id = self.queue.get(): blocks while the queue is empty.
QueueGet ==
    /\ wpc = "get"
    /\ queue # << >>
    /\ client_id' = QueueGetItem(queue).item
    /\ queue' = QueueGetItem(queue).rest
    /\ wpc' = "set_current"
    /\ UNCHANGED << api, client_requests, current_processing,
                    account_info, restore, exc, calls >>
    /\ UNCHANGED << producerVars, historyVars >>
    /\ UNCHANGED clientVars

\* self.current_processing = client_id
SetCurrent ==
    /\ wpc = "set_current"
    /\ current_processing' = client_id
    /\ wpc' = "set_processing"
    /\ UNCHANGED << api, queue, client_requests >>
    /\ UNCHANGED << producerVars, workerLocals, historyVars >>
    /\ UNCHANGED clientVars

\* data = self.client_requests[client_id]; data["status"] = "processing"
SetProcessing ==
    /\ wpc = "set_processing"
    /\ client_requests' = SetStatus(client_id, "processing")
    /\ started' = Append(started, client_id)
    /\ wpc' = "notify_processing"
    /\ UNCHANGED << api, queue, current_processing,
                    pushed, finished, runs >>
    /\ UNCHANGED << producerVars, workerLocals >>
    /\ UNCHANGED clientVars

\* send_telegram_notification(..., "processing", client_id): when it raises,
\* control leaves the try body for the loop's except clause.
NotifyProcessing ==
    /\ wpc = "notify_processing"
    /\ \E outcome \in send_telegram_notification :
          IF outcome = "return"
          THEN /\ wpc' = "process_request"
               /\ exc' = exc
          ELSE /\ wpc' = "queue_error"
               /\ exc' = "NotifyError"
    /\ UNCHANGED << api, queue, client_requests,
                    current_processing, client_id, account_info, restore,
                    calls >>
    /\ UNCHANGED << producerVars, historyVars >>
    /\ UNCHANGED clientVars

\* self._process_request(client_id): entry, data and username are read.
ProcessRequest ==
    /\ wpc = "process_request"
    /\ runs' = [runs EXCEPT ![client_id] = @ + 1]
    /\ wpc' = "lookup"
    /\ UNCHANGED << api, queue, client_requests,
                    current_processing, pushed, started, finished >>
    /\ UNCHANGED << producerVars, workerLocals >>
    /\ UNCHANGED clientVars

\* self.queue.task_done(): the iteration ends normally.
TaskDone ==
    /\ wpc = "task_done"
    /\ finished' = Append(finished, client_id)
    /\ account_info' = Unset
    /\ restore' = Unset
    /\ exc' = NoException
    /\ calls' = << >>
    /\ wpc' = "get"
    /\ UNCHANGED << api, queue, client_requests,
                    current_processing, client_id, pushed, started, runs >>
    /\ UNCHANGED producerVars
    /\ UNCHANGED clientVars

\* Mutant: the exception ends the worker thread.
QueueErrorStops == "stopped"

\* except Exception as e: print("QUEUE ERROR:", e); the loop goes on.
QueueErrorNext == "get"

QueueError ==
    /\ wpc = "queue_error"
    /\ finished' = Append(finished, client_id)
    /\ account_info' = Unset
    /\ restore' = Unset
    /\ exc' = NoException
    /\ calls' = << >>
    /\ wpc' = QueueErrorNext
    /\ UNCHANGED << api, queue, client_requests,
                    current_processing, client_id, pushed, started, runs >>
    /\ UNCHANGED producerVars
    /\ UNCHANGED clientVars

\* ------------------------------------------------------ _process_request

\* Mutant: a failed retry is handled like a first failure, refresh and retry.
RetryAgain(call) ==
    IF call = "lookup" THEN "lookup_refresh" ELSE "restore_refresh"

\* Where control goes when the retried call raises again: the exception
\* leaves the inner handler for the outer except clause.
RetryFailed(call) == "handle_error"

\* try: account_info = api.getUserByUsername(username)
\* except Exception: (any exception, whatever its kind) -> refresh and retry
Lookup ==
    /\ wpc = "lookup"
    /\ \E r \in getUserByUsername :
          /\ calls' = Append(calls, Call("lookup", Outcome(r)))
          /\ IF r \in AccountResponses
             THEN /\ account_info' = r
                  /\ exc' = exc
                  /\ wpc' = "read_uid"
             ELSE /\ account_info' = account_info
                  /\ exc' = r
                  /\ wpc' = "lookup_refresh"
    /\ UNCHANGED << api, queue, client_requests,
                    current_processing, client_id, restore >>
    /\ UNCHANGED << producerVars, historyVars >>
    /\ UNCHANGED clientVars

\* refresh_api_token() in the lookup's handler; its result is not read.
LookupRefresh ==
    /\ wpc = "lookup_refresh"
    /\ \E created \in BOOLEAN : api' = refresh_api_token(created)
    /\ calls' = Append(calls, Call("refresh", "called"))
    /\ wpc' = "lookup_retry"
    /\ UNCHANGED << queue, client_requests, current_processing,
                    client_id, account_info, restore, exc >>
    /\ UNCHANGED << producerVars, historyVars >>
    /\ UNCHANGED clientVars

\* account_info = api.getUserByUsername(username), the retry in the handler.
LookupRetry ==
    /\ wpc = "lookup_retry"
    /\ \E r \in getUserByUsername :
          /\ calls' = Append(calls, Call("lookup", Outcome(r)))
          /\ IF r \in AccountResponses
             THEN /\ account_info' = r
                  /\ exc' = NoException
                  /\ wpc' = "read_uid"
             ELSE /\ account_info' = account_info
                  /\ exc' = r
                  /\ wpc' = RetryFailed("lookup")
    /\ UNCHANGED << api, queue, client_requests,
                    current_processing, client_id, restore >>
    /\ UNCHANGED << producerVars, historyVars >>
    /\ UNCHANGED clientVars

\* user_data = account_info["result"]["data"]; uid = user_data["uid"]:
\* raises when the response carries no such data.
ReadUid ==
    /\ wpc = "read_uid"
    /\ IF account_info = "account_with_uid"
       THEN /\ wpc' = "restore"
            /\ exc' = exc
       ELSE /\ wpc' = "handle_error"
            /\ exc' = "KeyError"
    /\ UNCHANGED << api, queue, client_requests,
                    current_processing, client_id, account_info, restore,
                    calls >>
    /\ UNCHANGED << producerVars, historyVars >>
    /\ UNCHANGED clientVars

\* try: restore = api.restorePurchase(uid)
\* except Exception: (any exception) -> refresh and retry
RestorePurchase ==
    /\ wpc = "restore"
    /\ \E r \in restorePurchase :
          /\ calls' = Append(calls, Call("restore", Outcome(r)))
          /\ IF r \in RestoreResponses
             THEN /\ restore' = r
                  /\ exc' = exc
                  /\ wpc' = "check_entitlement"
             ELSE /\ restore' = restore
                  /\ exc' = r
                  /\ wpc' = "restore_refresh"
    /\ UNCHANGED << api, queue, client_requests,
                    current_processing, client_id, account_info >>
    /\ UNCHANGED << producerVars, historyVars >>
    /\ UNCHANGED clientVars

\* refresh_api_token() in the restore's handler.
RestoreRefresh ==
    /\ wpc = "restore_refresh"
    /\ \E created \in BOOLEAN : api' = refresh_api_token(created)
    /\ calls' = Append(calls, Call("refresh", "called"))
    /\ wpc' = "restore_retry"
    /\ UNCHANGED << queue, client_requests, current_processing,
                    client_id, account_info, restore, exc >>
    /\ UNCHANGED << producerVars, historyVars >>
    /\ UNCHANGED clientVars

\* restore = api.restorePurchase(uid), the retry in the handler.
RestoreRetry ==
    /\ wpc = "restore_retry"
    /\ \E r \in restorePurchase :
          /\ calls' = Append(calls, Call("restore", Outcome(r)))
          /\ IF r \in RestoreResponses
             THEN /\ restore' = r
                  /\ exc' = NoException
                  /\ wpc' = "check_entitlement"
             ELSE /\ restore' = restore
                  /\ exc' = r
                  /\ wpc' = RetryFailed("restore")
    /\ UNCHANGED << api, queue, client_requests,
                    current_processing, client_id, account_info >>
    /\ UNCHANGED << producerVars, historyVars >>
    /\ UNCHANGED clientVars

\* if gold.get("product_identifier") in subscription_ids:
\*     data["status"] = "completed"
\* else: raise Exception("Gold entitlement not found")
CheckEntitlement ==
    /\ wpc = "check_entitlement"
    /\ IF EntitlementValid(restore)
       THEN /\ client_requests' = SetStatus(client_id, "completed")
            /\ wpc' = "notify_completed"
            /\ exc' = exc
       ELSE /\ client_requests' = client_requests
            /\ wpc' = "handle_error"
            /\ exc' = "EntitlementMismatch"
    /\ UNCHANGED << api, queue, current_processing,
                    client_id, account_info, restore, calls >>
    /\ UNCHANGED << producerVars, historyVars >>
    /\ UNCHANGED clientVars

\* send_telegram_notification(..., "completed", ...): the call stands inside
\* the outer try, so when it raises the outer except clause runs.
NotifyCompleted ==
    /\ wpc = "notify_completed"
    /\ \E outcome \in send_telegram_notification :
          IF outcome = "return"
          THEN /\ wpc' = "task_done"
               /\ exc' = exc
          ELSE /\ wpc' = "handle_error"
               /\ exc' = "NotifyError"
    /\ UNCHANGED << api, queue, client_requests,
                    current_processing, client_id, account_info, restore,
                    calls >>
    /\ UNCHANGED << producerVars, historyVars >>
    /\ UNCHANGED clientVars

\* except Exception as e: data["status"] = "error"
HandleError ==
    /\ wpc = "handle_error"
    /\ client_requests' = SetStatus(client_id, "error")
    /\ wpc' = "notify_error"
    /\ UNCHANGED << api, queue, current_processing >>
    /\ UNCHANGED << producerVars, workerLocals, historyVars >>
    /\ UNCHANGED clientVars

\* send_telegram_notification(..., "error", client_id, str(e)): when it
\* raises, the exception leaves _process_request for the loop's except clause.
NotifyError ==
    /\ wpc = "notify_error"
    /\ \E outcome \in send_telegram_notification :
          IF outcome = "return"
          THEN /\ wpc' = "task_done"
               /\ exc' = exc
          ELSE /\ wpc' = "queue_error"
               /\ exc' = "NotifyError"
    /\ UNCHANGED << api, queue, client_requests,
                    current_processing, client_id, account_info, restore,
                    calls >>
    /\ UNCHANGED << producerVars, historyVars >>
    /\ UNCHANGED clientVars

\* ------------------------------------------------------------ specification

Worker ==
    \/ QueueGet
    \/ SetCurrent
    \/ SetProcessing
    \/ NotifyProcessing
    \/ ProcessRequest
    \/ Lookup
    \/ LookupRefresh
    \/ LookupRetry
    \/ ReadUid
    \/ RestorePurchase
    \/ RestoreRefresh
    \/ RestoreRetry
    \/ CheckEntitlement
    \/ NotifyCompleted
    \/ HandleError
    \/ NotifyError
    \/ TaskDone
    \/ QueueError

Next ==
    \/ \E p \in Producers : Producer(p)
    \/ Worker

Spec == Init /\ [][Next]_vars

\* The worker thread is scheduled again and again, every external call and
\* every notification call returns or raises, and a producer that entered
\* add_to_queue finishes it.  New submissions are never forced.
FairSpec ==
    /\ Spec
    /\ WF_vars(Worker)
    /\ \A p \in Producers : WF_vars(AddToQueuePut(p))

\* ------------------------------------- /api/queue/status and get_status

\* An id that no add_to_queue call has handed out.
UnknownId == MaxRequests + 1

\* The ids a client can send: one that /api/restore has answered, or one
\* that was never handed out.
PollTargets == Range(pushed) \cup { UnknownId }

\* get_status: "client_id not in self.client_requests" is false.
GetStatusKnown(reqs, c) == c \in DOMAIN reqs

\* client_id in self.queue.queue
InQueue(q, c) == c \in Range(q)

\* list(self.queue.queue).index(client_id): 0-based.
ListIndex(q, c) == Pos(q, c) - 1

\* Mutant: the list index is returned as it is.
GetStatusPositionZeroBased(q, c) == ListIndex(q, c)

\* list(self.queue.queue).index(client_id) + 1
GetStatusPosition(q, c) == ListIndex(q, c) + 1

\* get_status(client_id) evaluated in one state: the store reqs and the
\* queue q do not change while it runs.
GetStatusIn(reqs, q, c) ==
    IF ~GetStatusKnown(reqs, c) THEN None
    ELSE [ status   |-> reqs[c].status,
           position |-> IF InQueue(q, c) THEN GetStatusPosition(q, c)
                                         ELSE 0 ]

GetStatus(c) == GetStatusIn(client_requests, queue, c)

\* Mutant: every poll is answered 200.
QueueStatusAlwaysOk(result) == 200

\* queue_status: 404 when get_status returned None, else 200 with the
\* status; an exception that leaves the view is answered 500 by Flask.
QueueStatusCode(result) ==
    IF result = "not_found" THEN 404
    ELSE IF result = "raised" THEN 500
    ELSE 200

\* The poller is between two calls of /api/queue/status.
PollResting == qpc \in { "idle", "done", "not_found", "raised" }

\* queue_status calls get_status(client_id): the membership test and, for a
\* known id, the read of its status.  Records are never removed, so the two
\* are one step.
PollStart(c) ==
    /\ PollResting
    /\ qid' = c
    /\ qposition' = NoPosition
    /\ IF GetStatusKnown(client_requests, c)
       THEN /\ qstatus' = Status(c)
            /\ qpc' = "in_queue"
            /\ qcode' = 0
       ELSE /\ qstatus' = Unset
            /\ qpc' = "not_found"
            /\ qcode' = QueueStatusCode("not_found")
    /\ UNCHANGED << api, queue, client_requests, current_processing, wpc,
                    submit_response >>
    /\ UNCHANGED << producerVars, workerLocals, historyVars >>

\* ... if client_id in self.queue.queue else 0: the condition is evaluated
\* before the index is taken.
PollInQueue ==
    /\ qpc = "in_queue"
    /\ IF InQueue(queue, qid)
       THEN /\ qpc' = "index"
            /\ UNCHANGED << qposition, qcode >>
       ELSE /\ qpc' = "done"
            /\ qposition' = 0
            /\ qcode' = QueueStatusCode("done")
    /\ UNCHANGED << api, queue, client_requests, current_processing, wpc,
                    qid, qstatus, submit_response >>
    /\ UNCHANGED << producerVars, workerLocals, historyVars >>

\* list(self.queue.queue).index(client_id) + 1: index raises ValueError when
\* the id has left the queue since the condition was evaluated; the status
\* already read is lost with the frame.
PollIndex ==
    /\ qpc = "index"
    /\ IF InQueue(queue, qid)
       THEN /\ qpc' = "done"
            /\ qposition' = GetStatusPosition(queue, qid)
            /\ qstatus' = qstatus
       ELSE /\ qpc' = "raised"
            /\ qposition' = qposition
            /\ qstatus' = Unset
    /\ qcode' = QueueStatusCode(qpc')
    /\ UNCHANGED << api, queue, client_requests, current_processing, wpc,
                    qid, submit_response >>
    /\ UNCHANGED << producerVars, workerLocals, historyVars >>

Poller ==
    \/ \E c \in PollTargets : PollStart(c)
    \/ PollInQueue
    \/ PollIndex

NextPoll ==
    \/ Next
    \/ Poller

\* The queue with a client that polls /api/queue/status.
PollSpec == Init /\ [][NextPoll]_vars

\* ------------------------------------ restore_purchase (position and ETA)

\* totalQueueDepth: the pending count, plus one if some other request is
\* being processed.
TotalQueueDepth(c) ==
    Len(queue)
      + (IF \E d \in Requests \ { c } : Status(d) = "processing" THEN 1 ELSE 0)

\* averageDuration(): the default while no run has ended, else the mean of
\* the window.
AverageDurations ==
    IF finished = << >> THEN { DefaultDuration } ELSE MeanDurations

\* estimate(position) = position * averageDuration(); 0 for position 0.
Estimate(position, average) == position * average

\* restore_purchase: client_id = queue_manager.add_to_queue(username) has
\* stored the record; its queue.put runs and the call returns.
SubmitPut(p) ==
    /\ ppc[p] = "put"
    /\ queue' = QueuePut(queue, pclient[p])
    /\ pushed' = Append(pushed, pclient[p])
    /\ ppc' = [ppc EXCEPT ![p] = "status"]
    /\ UNCHANGED << api, client_requests, current_processing, pclient,
                    response, wpc, started, finished, runs >>
    /\ UNCHANGED workerLocals
    /\ UNCHANGED clientVars

\* restore_purchase: status = queue_manager.get_status(client_id), a second
\* call, and the answer built from it.
SubmitStatus(p) ==
    /\ ppc[p] = "status"
    /\ \E average \in AverageDurations :
          submit_response' =
             [ client_id      |-> pclient[p],
               position       |-> GetStatus(pclient[p]).position,
               total_queue    |-> TotalQueueDepth(pclient[p]),
               estimated_time |->
                  Estimate(GetStatus(pclient[p]).position, average) ]
    /\ ppc' = [ppc EXCEPT ![p] = "idle"]
    /\ pclient' = [pclient EXCEPT ![p] = None]
    /\ response' = 200
    /\ UNCHANGED << api, queue, client_requests, current_processing, wpc >>
    /\ UNCHANGED << workerLocals, historyVars, pollVars >>

Submitter(p) ==
    \/ RestoreNotReady(p)
    \/ RestoreNoUsername(p)
    \/ AddToQueueCreate(p)
    \/ SubmitPut(p)
    \/ SubmitStatus(p)

NextSubmit ==
    \/ \E p \in Producers : Submitter(p)
    \/ Worker

\* The queue behind the /api/restore route that answers with the position,
\* the queue depth and the estimate.
SubmitSpec == Init /\ [][NextSubmit]_vars

\* --------------------------------------- an external call without deadline

\* api.getUserByUsername / api.restorePurchase is called with no timeout and
\* nothing interrupts it: the call may never return.
CallHangs ==
    /\ wpc \in { "lookup", "lookup_retry", "restore", "restore_retry" }
    /\ wpc' = "hung"
    /\ UNCHANGED << api, queue, client_requests, current_processing >>
    /\ UNCHANGED << producerVars, workerLocals, historyVars, clientVars >>

NextHang ==
    \/ Next
    \/ CallHangs

\* The worker is scheduled and a producer finishes add_to_queue, as in
\* FairSpec, but an external call is free never to return.
HangFairSpec ==
    /\ Init /\ [][NextHang]_vars
    /\ WF_vars(Worker)
    /\ \A p \in Producers : WF_vars(AddToQueuePut(p))

\* ------------------------------------------------------------------ claims

Terminal == { "completed", "error" }

\* The worker is at the end of its iteration for client_id.
EndOfIteration == wpc \in { "task_done", "queue_error" }

ExternalCalls == { "lookup", "restore" }

\* calls[i] is the first attempt of its operation in this iteration.
FirstAttempt(i) ==
    /\ calls[i].op \in ExternalCalls
    /\ \A k \in 1..(i - 1) : calls[k].op # calls[i].op

\* The exception in flight was raised by an external call.
CallFailed == exc \in CallErrors \cup { "AttributeError" }

\* C1: at most one request record has status "processing".
AtMostOneProcessing ==
    Cardinality({ c \in Requests : Status(c) = "processing" }) <= 1

\* C2: a status changes only along waiting -> processing -> completed or
\* waiting -> processing -> error; completed and error never change again.
StatusLifecycle ==
    [][ \A c \in Requests :
           \/ client_requests'[c].status = Status(c)
           \/ << Status(c), client_requests'[c].status >> \in
                 { << "waiting", "processing" >>,
                   << "processing", "completed" >>,
                   << "processing", "error" >> } ]_vars

\* C3: under a fairly scheduled worker, with every call returning or raising,
\* every request added by add_to_queue eventually is completed or in error.
EventuallyTerminal ==
    \A c \in ClientIds :
        [](c \in Requests => <>(c \in Requests /\ Status(c) \in Terminal))

\* C4: when A was pushed before B, A is marked processing before B, and B is
\* marked processing only after the worker's iteration for A is over.
FifoOrder ==
    \A i, j \in DOMAIN pushed :
        (i < j /\ pushed[j] \in Range(started)) =>
            /\ pushed[i] \in Range(started)
            /\ Pos(started, pushed[i]) < Pos(started, pushed[j])
            /\ pushed[i] \in Range(finished)

\* C4 witness: two producers raced, the second id was pushed first, and both
\* requests were marked processing in push order.
FifoWitness == pushed = << 2, 1 >> /\ started = << 2, 1 >>

\* C5: every request is run through _process_request exactly once: never
\* twice, and once by the time the worker's iteration for it is over.
ProcessedExactlyOnce ==
    /\ \A c \in Requests : runs[c] <= 1
    /\ \A c \in Range(finished) : runs[c] = 1

\* C6: an external call that fails with anything but an authentication failure
\* is attempted once: no refresh, no retry, and the request goes to error.
NonAuthNeverRetried ==
    \A i \in DOMAIN calls :
        (FirstAttempt(i) /\ calls[i].result \notin { "ok", "AuthError" }) =>
            /\ Len(calls) = i
            /\ wpc = "handle_error" \/ Status(client_id) = "error"

\* C7: after an authentication failure of an external call exactly one refresh
\* is triggered and the call is retried exactly once; a retry that succeeds
\* lets the pipeline go on, a retry that fails ends the request in error with
\* no further call.  Each external call is attempted at most twice.
AuthRetryOnce ==
    /\ \A op \in ExternalCalls :
          Cardinality({ i \in DOMAIN calls : calls[i].op = op }) <= 2
    /\ \A k \in DOMAIN calls :
          calls[k].op = "refresh" =>
              k > 1 /\ FirstAttempt(k - 1) /\ calls[k - 1].result # "ok"
    /\ \A i \in DOMAIN calls :
          (FirstAttempt(i) /\ calls[i].result = "AuthError") =>
              /\ Len(calls) = i =>
                    wpc = IF calls[i].op = "lookup" THEN "lookup_refresh"
                                                    ELSE "restore_refresh"
              /\ Len(calls) > i => calls[i + 1].op = "refresh"
              /\ Len(calls) = i + 1 =>
                    wpc = IF calls[i].op = "lookup" THEN "lookup_retry"
                                                    ELSE "restore_retry"
              /\ Len(calls) > i + 1 => calls[i + 2].op = calls[i].op
              /\ (Len(calls) > i + 1 /\ calls[i + 2].result # "ok") =>
                    /\ Len(calls) = i + 2
                    /\ wpc = "handle_error" \/ Status(client_id) = "error"
              /\ (Len(calls) = i + 2 /\ calls[i + 2].result = "ok") =>
                    ~CallFailed

\* C7 witness: both calls failed on authentication, were retried once after
\* one refresh each, and the request completed.
AuthRetryWitness ==
    /\ wpc = "task_done"
    /\ Status(client_id) = "completed"
    /\ calls = << Call("lookup", "AuthError"), Call("refresh", "called"),
                  Call("lookup", "ok"),
                  Call("restore", "AuthError"), Call("refresh", "called"),
                  Call("restore", "ok") >>

\* The status the external calls' outcomes alone decide for client_id: the
\* one the request ends in when every notification call returns.
PipelineVerdict ==
    IF restore # Unset /\ EntitlementValid(restore) THEN "completed"
                                                    ELSE "error"

\* C8: whatever the notification calls do, the pipeline runs for the request
\* and the request ends in the status the external calls' outcomes decide.
NotificationsHarmless ==
    EndOfIteration =>
        /\ runs[client_id] = 1
        /\ Status(client_id) = PipelineVerdict

\* C9: under a fairly scheduled worker every queued id is popped and its
\* iteration is carried to its end, whatever failed in earlier iterations:
\* the loop never stops.
WorkerKeepsRunning ==
    \A c \in ClientIds : (c \in Range(queue)) ~> (c \in Range(finished))

\* C9 witness: the iteration for the first request ended in the loop's except
\* clause, leaving it "processing", and the next request was still handled.
WorkerKeepsRunningWitness ==
    /\ Len(finished) >= 2
    /\ Status(finished[1]) = "processing"
    /\ Status(finished[2]) \in Terminal

\* C10: a request is completed only if both external calls succeeded and the
\* Gold product identifier is in subscription_ids; when both calls succeeded
\* and the identifier is absent or not in the list, the request ends in error.
CompletedOnlyIfEntitled ==
    /\ \A c \in Requests :
          Status(c) = "completed" => c \in Range(started) /\ runs[c] = 1
    /\ (wpc \notin { "get", "set_current", "set_processing" }
          /\ Status(client_id) = "completed") =>
             /\ account_info = "account_with_uid"
             /\ restore \in RestoreResponses
             /\ GoldProductIdentifier(restore) \in subscription_ids
             /\ \E i, j \in DOMAIN calls :
                   /\ calls[i] = Call("lookup", "ok")
                   /\ calls[j] = Call("restore", "ok")
    /\ (EndOfIteration /\ restore \in RestoreResponses
          /\ GoldProductIdentifier(restore) \notin subscription_ids) =>
             Status(client_id) = "error"

\* C10 witness: both calls succeeded with an allow-listed product and the
\* request was completed.
CompletedWitness ==
    /\ wpc = "task_done"
    /\ restore = "locket_199_1m"
    /\ Status(client_id) = "completed"

\* The 1-based rank of a pending id among the pending ids, in the order
\* queue.put ran.
PendingRank(c) ==
    1 + Cardinality({ d \in Range(queue) : Pos(pushed, d) < Pos(pushed, c) })

\* C11: a status poll that runs while the worker runs returns a status and a
\* position of one snapshot: 'waiting' with a rank of 1 or more, or a
\* status past 'waiting' with position 0; never 'waiting' with position 0.
PollReadsOneSnapshot ==
    qpc = "done" => (qstatus = "waiting" <=> qposition >= 1)

\* C12: evaluated in one state, get_status(id) returns the status of id, and
\* position 0 if id is being processed, the 1-based rank of id among the
\* pending ids if id is pending, and 0 if id is completed or in error.
QuiescentPosition ==
    \A c \in Requests :
        /\ GetStatus(c).status = Status(c)
        /\ Status(c) = "processing" => GetStatus(c).position = 0
        /\ c \in Range(queue) => GetStatus(c).position = PendingRank(c)
        /\ Status(c) \in Terminal => GetStatus(c).position = 0

\* C12 witness: two ids are pending and the second one is given position 2.
QuiescentPositionWitness ==
    /\ Len(queue) = 2
    /\ GetStatus(queue[2]).position = 2

\* C14: a poll for an id that add_to_queue never returned is answered not
\* found (HTTP 404) and leaves the request store and the queue as they were.
UnknownIdNotFound ==
    [][ (qid' = UnknownId /\ qpc' # qpc) =>
           /\ qpc' = "not_found"
           /\ qcode' = 404
           /\ UNCHANGED << client_requests, queue >> ]_vars

\* C14 witness: an unknown id has been answered 404 while a request was
\* pending.
UnknownIdWitness ==
    /\ qpc = "not_found"
    /\ qid = UnknownId
    /\ Len(queue) = 1

\* C15: a submission rejected with 400 (no username) or 500 (no API handle)
\* creates no record and pushes nothing: store and queue are unchanged.
RejectedLeavesNoTrace ==
    [][ (response' \in { 400, 500 } /\ response' # response) =>
           UNCHANGED << client_requests, queue, pushed >> ]_vars

\* C15 witness: a submission was rejected with 400 after another had been
\* accepted and was still pending.
RejectedWitness ==
    /\ response = 400
    /\ Len(client_requests) = 1
    /\ Len(queue) = 1

\* C17: every id in the pending queue has a record whose status is
\* 'waiting', and no id is in the queue twice.
QueueHoldsWaiting ==
    \A i \in DOMAIN queue :
        /\ queue[i] \in Requests
        /\ Status(queue[i]) = "waiting"
        /\ \A j \in DOMAIN queue : queue[j] = queue[i] => j = i

\* C17 witness: an id is pending while the worker processes another one.
QueueHoldsWaitingWitness ==
    /\ Len(queue) = 1
    /\ wpc = "process_request"
    /\ Status(client_id) = "processing"

\* C18: get_status for the id of an existing request never raises, however
\* it interleaves with the worker popping that id.
GetStatusNeverRaises ==
    qpc # "raised"

\* C19: when current_processing is not None the request it names has status
\* 'processing'; when no request has status 'processing' it is None.
CurrentProcessingAccurate ==
    /\ current_processing # None =>
          Status(current_processing) = "processing"
    /\ (\A c \in Requests : Status(c) # "processing") =>
          current_processing = None

\* C20: for one request the positions that successive polls return never
\* increase, and after a 0 every later one is 0: each answer is the position
\* of the id in the state where the poll computes it, and that position
\* never grows from one state to the next, whatever is submitted later.
\* The record of an id that add_to_queue has returned is never removed, so
\* its position can only change in a step that changes the queue.
PositionNeverIncreases ==
    [][ /\ (qpc' = "done" /\ qpc # "done") =>
              qposition' = GetStatus(qid).position
        /\ Range(pushed) \subseteq DOMAIN client_requests'
        /\ queue' # queue =>
              \A c \in Range(pushed) :
                 GetStatusIn(client_requests', queue', c).position
                    <= GetStatus(c).position ]_vars

\* C20 witness: a poll of the second of two submitted ids is answered
\* position 1 after the first one has left the queue.
PositionWitness ==
    /\ Len(pushed) = 2
    /\ GetStatus(pushed[1]).position = 0
    /\ qpc = "done"
    /\ qid = pushed[2]
    /\ qposition = 1

\* C13: a submit on an empty, idle system with no duration history is
\* answered position 1, total_queue 1 and estimated_time 5, whatever the
\* worker does between the enqueue and the status read.
FirstSubmitResponse ==
    (submit_response.client_id # None /\ Len(client_requests) = 1) =>
        /\ submit_response.position = 1
        /\ submit_response.total_queue = 1
        /\ submit_response.estimated_time = 5

\* C16: an external call that never returns fails after a bounded deadline,
\* its request goes to 'error', and every request queued behind it is still
\* processed.
StuckCallTimesOut ==
    /\ \A c \in ClientIds :
          (wpc = "hung" /\ client_id = c)
             ~> (wpc # "hung" /\ c \in Requests /\ Status(c) = "error")
    /\ \A c \in ClientIds : InQueue(queue, c) ~> (c \in Range(finished))

=============================================================================
